---- MODULE Spec2Model ----
(***************************************************************************)
(* Slot locking and booking lifecycle of SportSphere: createDirectBooking, *)
(* startGameBooking, retryPayment and the stripeWebhook handler, each      *)
(* modelled as a request that advances one datastore / processor call at   *)
(* a time, over one TimeSlot document, the Booking collection, one Game    *)
(* and the payment sessions issued by the processor.                       *)
(***************************************************************************)
EXTENDS Integers, FiniteSets, Sequences, TLC

\* ------------------------------------------------------------------ bounds
MaxBookings == 2
MaxTime == 1

\* ------------------------------------------------------- program constants
PaisePerRupee == 100
SessionExpirySeconds == 1800

\* ------------------------------------------------------------- the universe
SlotIds == {1, 2}
Sports == {"Cricket", "Football"}
Users == {"u1", "u2"}
Booker == "u1"
Workers == {1, 2}
BookingIds == 1..MaxBookings
SessionIds == {1, 2}
ReqIds == Workers
BasePrice == 1000
RaisedPrice == 2 * BasePrice
GameId == 1
GameHost == "u1"
GameSport == "Cricket"
GameSlot == 2
GamePrice == BasePrice
GameMinPlayers == 2

\* Entry 1 of the document has already started when the model begins, entry 2
\* is the upcoming one that the requests are about.
StartTime(s) == s - 2
EndTime(s) == s - 1

VARIABLES slots, prices, bookings, sessions, game, reqs, now, workers, bypassStripe, stripeKeySet,
          hosted, call, auth

\* The state of the payment flows, of the game-hosting controllers and of the
\* protect middleware; each of the three specifications moves one of them.
payments == <<slots, prices, bookings, sessions, game, reqs, now, workers, bypassStripe, stripeKeySet>>
community == <<hosted, call>>
vars == <<payments, community, auth>>

\* ------------------------------------------------------------------ records
NoBooking == [status |-> "none", user |-> "none", slot |-> 0, sport |-> "none",
              amount |-> 0, session |-> 0, intent |-> 0, game |-> 0]
NoSession == [type |-> "none", bookingId |-> 0, slot |-> 0, gameId |-> 0,
              amount |-> 0, expires |-> 0, fate |-> "none", acked |-> FALSE, stray |-> 0]
Idle == [kind |-> "none", pc |-> "idle", user |-> "none", slot |-> 0, sport |-> "none",
         price |-> 0, bk |-> 0, sess |-> 0, snap |-> "none", didLock |-> FALSE,
         took |-> 0, resp |-> 0, err |-> "none", ev |-> "none"]

\* The game document of the hosting controllers (status "none": not hosted
\* yet), a call of these controllers with the transaction it runs in, and a
\* request going through the protect middleware.
NoGame == [status |-> "none", host |-> "none", approvedPlayers |-> <<>>, joinRequests |-> <<>>,
           bookingStatus |-> "NotBooked", max |-> 0, startsIn |-> 0]
NoCall == [op |-> "none", pc |-> "idle", user |-> "none", copy |-> NoGame, txn |-> "none",
           ended |-> FALSE, resp |-> 0, err |-> "none"]
NoAuth == [pc |-> "idle", header |-> "none", verify |-> "none", lookup |-> "none",
           status |-> 0, msg |-> "none", cause |-> "none", user |-> "none", next |-> FALSE]

Active(r) == r.pc \notin {"idle", "done"}

\* A handler that has answered: the response stays visible until it is
\* delivered (Deliver), and nothing else runs in between.
Done(r, code, msg) == [r EXCEPT !.pc = "done", !.resp = code, !.err = msg]
Rejected(k, code, msg) == [Idle EXCEPT !.kind = k, !.pc = "done", !.resp = code, !.err = msg]
Quiet == \A j \in ReqIds : reqs[j].pc # "done"

\* A request is taken by the lowest free worker.
FreeReq(i) == /\ Quiet
              /\ i <= workers
              /\ ~Active(reqs[i])
              /\ \A j \in ReqIds : j < i => Active(reqs[j])
AllIdle == \A j \in ReqIds : reqs[j].pc = "idle"
\* A request that validation rejects is one read and one answer; it is taken
\* when no other request is in flight.
Admit(v) == v[1] # 0 => AllIdle
\* No request is taken while a startGameBooking is in flight.
NoGameInFlight == \A j \in ReqIds : ~(Active(reqs[j]) /\ reqs[j].kind = "game")
Step(i, rec) == [reqs EXCEPT ![i] = rec]

Min(S) == CHOOSE x \in S : \A y \in S : x <= y

\* ------------------------------------------------------------- the slot store
\* The filter {_id, "slots._id": slotId, "slots.status": "available"}: the two
\* array predicates are matched independently (there is no $elemMatch), so the
\* document matches when some entry has the id and some entry is available.
LockMatches(sl, s) ==
    /\ s \in DOMAIN sl
    /\ \E j \in DOMAIN sl : sl[j].status = "available"

\* The entry that "slots.$" stands for: the first entry matching one of the
\* array predicates of the filter; which of the two predicates decides is
\* left to the datastore.
LockPositions(sl, s) ==
    {s} \cup {Min({j \in DOMAIN sl : sl[j].status = "available"})}

SetSlot(sl, p, st, sp) == [sl EXCEPT ![p] = [status |-> st, bookedForSport |-> sp]]

\* A lock that sets the status and leaves bookedForSport as it was.
AtomicLock_StatusOnly(sl, p, sp) == [sl EXCEPT ![p].status = "booked"]

\* $set "slots.$.status": "booked", "slots.$.bookedForSport": sport
AtomicLock(sl, p, sp) == SetSlot(sl, p, "booked", sp)

\* The entry a lock update turned from available to booked (0: none); kept
\* with the request to tell what the call itself acquired.
Taken(sl, p) == IF sl[p].status = "available" THEN p ELSE 0

\* A rollback whose write is lost.
ReleaseSlot_Skip(sl, s) == sl

\* A release that sets the status and leaves bookedForSport as it was.
ReleaseSlot_KeepSport(sl, s) == [sl EXCEPT ![s].status = "available"]

\* filter {_id, "slots._id": slotId}; $set status "available", bookedForSport null
ReleaseSlot(sl, s) == SetSlot(sl, s, "available", "none")

\* slot.prices.get(sport) or slot.prices[sport]; 0 stands for no entry
PriceOf(pr, s, sp) == pr[s][sp]

priceInPaise(price) == price * PaisePerRupee

\* A lookup that takes the first entry of the document, whatever its times.
SlotByTime_First(st, et) == Min(SlotIds)

\* The slot entry whose start and end time equal those of the booking.
SlotByTime(st, et) ==
    LET hits == {s \in SlotIds : StartTime(s) = st /\ EndTime(s) = et}
    IN IF hits = {} THEN 0 ELSE Min(hits)

\* Booking.findOne({stripeSessionId: id}); 0 when there is none
BookingOfSession(bs, x) ==
    LET hits == {b \in BookingIds : bs[b].status # "none" /\ bs[b].session = x}
    IN IF hits = {} THEN 0 ELSE Min(hits)

\* ---------------------------------------------------------------- allocation
UsedBookingIds ==
    {b \in BookingIds : bookings[b].status # "none"}
      \cup {sessions[x].bookingId : x \in {y \in SessionIds : sessions[y].type \in {"direct", "game"}}}
      \cup {reqs[i].bk : i \in {j \in ReqIds : Active(reqs[j]) /\ reqs[j].kind \in {"direct", "game"}}}
FreeBookingIds == BookingIds \ UsedBookingIds
FreeSessionIds == {x \in SessionIds : sessions[x].type = "none"}

\* ------------------------------------------------------------------- Init
\* The deployments explored: the processor configured, with two workers
\* serving overlapping requests and an Open game, or one worker and a game
\* that is Full; demo mode; and a missing key, with a game that may lack
\* players or be Completed.
Scenario(w, bypass, key, g) ==
    \/ ~bypass /\ key /\ g.approved = GameMinPlayers /\ (w = 1 <=> g.status = "Full")
    \/ w = 1 /\ bypass /\ key /\ g.approved = GameMinPlayers /\ g.status = "Open"
    \/ w = 1 /\ ~bypass /\ ~key /\ g.status \in {"Open", "Completed"}

Init ==
    /\ slots = [s \in SlotIds |-> [status |-> "available", bookedForSport |-> "none"]]
    /\ prices = [s \in SlotIds |-> [sp \in Sports |-> IF sp = "Cricket" THEN BasePrice ELSE 0]]
    /\ bookings = [b \in BookingIds |-> NoBooking]
    /\ sessions = [x \in SessionIds |-> NoSession]
    /\ game \in {[status |-> st, bookingStatus |-> "NotBooked", approved |-> n] :
                    st \in {"Open", "Full", "Completed"}, n \in {GameMinPlayers - 1, GameMinPlayers}}
    /\ reqs = [i \in ReqIds |-> Idle]
    /\ now = 0
    /\ workers \in Workers
    /\ bypassStripe \in BOOLEAN
    /\ stripeKeySet \in BOOLEAN
    /\ Scenario(workers, bypassStripe, stripeKeySet, game)
    /\ hosted = NoGame /\ call = NoCall /\ auth = NoAuth

\* ------------------------------------------------------- createDirectBooking
\* A validation that tells the caller the slot is held by someone else.
DirectValidate_AlreadyBooked(s, sp, lookup) ==
    IF s = 0 \/ sp = "none" THEN <<400, "Missing required fields">>
    ELSE IF lookup = "noDoc" THEN <<404, "TimeSlot document not found">>
    ELSE IF s \notin SlotIds THEN <<404, "Slot not found">>
    ELSE IF slots[s].status # "available" THEN <<409, "Slot is already booked">>
    ELSE IF StartTime(s) < now THEN <<400, "Cannot book a slot in the past">>
    ELSE IF PriceOf(prices, s, sp) = 0 THEN <<400, "Sport price not available for this slot">>
    ELSE IF lookup = "noSubVenue" THEN <<404, "SubVenue not found">>
    ELSE IF lookup = "noVenue" THEN <<404, "Venue not found">>
    ELSE <<0, "ok">>

\* A validation that does not look at the start time.
DirectValidate_NoPastCheck(s, sp, lookup) ==
    IF s = 0 \/ sp = "none" THEN <<400, "Missing required fields">>
    ELSE IF lookup = "noDoc" THEN <<404, "TimeSlot document not found">>
    ELSE IF s \notin SlotIds THEN <<404, "Slot not found">>
    ELSE IF slots[s].status # "available" THEN <<400, "Slot is no longer available">>
    ELSE IF PriceOf(prices, s, sp) = 0 THEN <<400, "Sport price not available for this slot">>
    ELSE IF lookup = "noSubVenue" THEN <<404, "SubVenue not found">>
    ELSE IF lookup = "noVenue" THEN <<404, "Venue not found">>
    ELSE <<0, "ok">>

\* The checks before the lock, on the time-slot document as read by findById
\* and on the sub-venue and venue lookups.
DirectValidate(s, sp, lookup) ==
    IF s = 0 \/ sp = "none" THEN <<400, "Missing required fields">>
    ELSE IF lookup = "noDoc" THEN <<404, "TimeSlot document not found">>
    ELSE IF s \notin SlotIds THEN <<404, "Slot not found">>
    ELSE IF slots[s].status # "available" THEN <<400, "Slot is no longer available">>
    ELSE IF StartTime(s) < now THEN <<400, "Cannot book a slot in the past">>
    ELSE IF PriceOf(prices, s, sp) = 0 THEN <<400, "Sport price not available for this slot">>
    ELSE IF lookup = "noSubVenue" THEN <<404, "SubVenue not found">>
    ELSE IF lookup = "noVenue" THEN <<404, "Venue not found">>
    ELSE <<0, "ok">>

DirectStart(i, s, sp, lookup) ==
    /\ FreeReq(i) /\ NoGameInFlight
    /\ Admit(DirectValidate(s, sp, lookup))
    /\ LET v == DirectValidate(s, sp, lookup) IN
       reqs' = Step(i, IF v[1] # 0 THEN Rejected("direct", v[1], v[2])
                       ELSE [Idle EXCEPT !.kind = "direct", !.pc = "lock", !.user = Booker,
                                         !.slot = s, !.sport = sp,
                                         !.price = priceInPaise(PriceOf(prices, s, sp))])
    /\ UNCHANGED <<slots, prices, bookings, sessions, game, now, workers, bypassStripe, stripeKeySet>>
    /\ UNCHANGED <<community, auth>>

DirectLock(i) ==
    LET r == reqs[i] IN
    /\ Quiet /\ r.kind = "direct" /\ r.pc = "lock"
    /\ IF LockMatches(slots, r.slot)
       THEN \E p \in LockPositions(slots, r.slot) :
              /\ slots' = AtomicLock(slots, p, r.sport)
              /\ reqs' = Step(i, [r EXCEPT !.pc = "book", !.didLock = TRUE, !.took = Taken(slots, p)])
       ELSE /\ reqs' = Step(i, Done(r, 400, "Slot is no longer available"))
            /\ UNCHANGED slots
    /\ UNCHANGED <<prices, bookings, sessions, game, now, workers, bypassStripe, stripeKeySet>>
    /\ UNCHANGED <<community, auth>>

\* The entry, other than the one asked for, that the call turned to booked.
Stray(r) == IF r.took \notin {0, r.slot} THEN r.took ELSE 0

\* The session a handler asks the processor for; stray notes the entry that
\* the asking call had booked besides the one it asked for.
NewSession(type, b, s, g, amt, exp, stray) ==
    [type |-> type, bookingId |-> b, slot |-> s, gameId |-> g, amount |-> amt,
     expires |-> exp, fate |-> "open", acked |-> FALSE, stray |-> stray]

\* The record Booking.create writes.
NewBooking(r, x, g) ==
    [status |-> IF bypassStripe THEN "Paid" ELSE "Pending",
     user |-> r.user, slot |-> r.slot, sport |-> r.sport, amount |-> r.price,
     session |-> IF bypassStripe THEN 0 - r.bk ELSE x,
     intent |-> IF bypassStripe THEN 0 - r.bk ELSE 0, game |-> g]

\* The failures injected: a throwing processor call at any time, a throwing
\* datastore write in the runs of one worker.
Injected(fault) == fault \in {"none", "session"} \/ workers = 1

\* A try block whose getStripe hands out a client without a secret.
TryError_NoKeyCheck(fault) ==
    IF ~bypassStripe /\ fault = "session" THEN <<500, "Stripe error">>
    ELSE IF fault = "persist" THEN <<500, "Database error">>
    ELSE <<0, "ok">>

\* The error, if any, raised by the try block: by getStripe, by
\* sessions.create (fault "session") or by a later write (fault "persist").
TryError(fault) ==
    IF ~bypassStripe /\ ~stripeKeySet THEN <<500, "STRIPE_SECRET_KEY is not set">>
    ELSE IF ~bypassStripe /\ fault = "session" THEN <<500, "Stripe error">>
    ELSE IF fault = "persist" THEN <<500, "Database error">>
    ELSE <<0, "ok">>
SessionMade(fault) == ~bypassStripe /\ stripeKeySet /\ fault # "session"

\* The try block after the lock: bookingId is generated, the processor is
\* asked for a session (or the demo identifiers are made up), the booking is
\* created and 201 is answered; the catch block unlocks the slot and rethrows.
\* A failing call changes nothing itself, so it is taken together with the
\* unlock that follows it.
DirectBook(i, fault) ==
    LET r == reqs[i]
        e == TryError(fault) IN
    /\ Quiet /\ r.kind = "direct" /\ r.pc = "book"
    /\ FreeBookingIds # {}
    /\ SessionMade(fault) => FreeSessionIds # {}
    /\ fault = "session" => ~bypassStripe /\ stripeKeySet
    /\ Injected(fault)
    /\ LET b == Min(FreeBookingIds)
           x == IF SessionMade(fault) THEN Min(FreeSessionIds) ELSE 0
           rb == [r EXCEPT !.bk = b, !.sess = IF bypassStripe THEN 0 - b ELSE x]
       IN
       /\ sessions' = IF SessionMade(fault)
                      THEN [sessions EXCEPT ![x] =
                              NewSession("direct", b, r.slot, 0, r.price, SessionExpirySeconds, Stray(r))]
                      ELSE sessions
       /\ IF e[1] = 0
          THEN /\ bookings' = [bookings EXCEPT ![b] = NewBooking(rb, x, 0)]
               /\ reqs' = Step(i, Done(rb, 201, IF bypassStripe THEN "demo" ELSE "url"))
               /\ UNCHANGED slots
          ELSE /\ slots' = ReleaseSlot(slots, r.slot)
               /\ reqs' = Step(i, Done(rb, e[1], e[2]))
               /\ UNCHANGED bookings
    /\ UNCHANGED <<prices, game, now, workers, bypassStripe, stripeKeySet>>
    /\ UNCHANGED <<community, auth>>

\* ------------------------------------------------------------- stripeWebhook
\* document.save() writes the paths whose value differs from the value loaded.
SaveStatus(bs, b, loaded, st) ==
    IF st = loaded THEN bs ELSE [bs EXCEPT ![b].status = st]

\* An expired branch that refuses an event it has already acknowledged.
AfterExpiredBooking_RefuseRepeat(r) ==
    IF sessions[r.sess].acked THEN Done(r, 409, "Event already processed")
    ELSE IF sessions[r.sess].slot # 0 THEN [r EXCEPT !.pc = "release"]
    ELSE IF r.bk # 0 THEN [r EXCEPT !.pc = "fallback"]
    ELSE Done(r, 200, "ok")

\* Where the expired branch goes once the booking and the game are dealt with.
AfterExpiredBooking(r) ==
    IF sessions[r.sess].slot # 0 THEN [r EXCEPT !.pc = "release"]
    ELSE IF r.bk # 0 THEN [r EXCEPT !.pc = "fallback"]
    ELSE Done(r, 200, "ok")

\* The processor takes a 200 answer as the receipt of the session's event.
Receipt(ss, r) ==
    IF r.pc = "done" /\ r.resp = 200 THEN [ss EXCEPT ![r.sess].acked = TRUE] ELSE ss

\* A handler that trusts the payload without the signature.
Verified_Always(sigOk) == TRUE

\* stripe.webhooks.constructEvent: the event is taken only with a good signature.
Verified(sigOk) == sigOk

\* A dispatch that treats a failed payment like an expired session.
Handled_FailedAsExpired(ev) == ev \in {"completed", "expired", "payment_intent.payment_failed"}

\* The event types whose case of the switch touches the stores.
Handled(ev) == ev \in {"completed", "expired"}

\* Signature check, dispatch on the event type and Booking.findOne.  The
\* processor emits one kind of final event per session and may redeliver it;
\* a request with a bad signature or of another type may name any session.
WebhookStart(i, x, ev, sigOk) ==
    /\ FreeReq(i) /\ NoGameInFlight
    /\ IF ~Verified(sigOk) THEN
          /\ AllIdle
          /\ reqs' = Step(i, Rejected("webhook", 400, "Webhook Error"))
          /\ UNCHANGED sessions
       ELSE IF ~Handled(ev) THEN
          /\ AllIdle
          /\ reqs' = Step(i, Rejected("webhook", 200, ev))
          /\ UNCHANGED sessions
       ELSE
          /\ x \in SessionIds
          /\ \/ sessions[x].fate = "open"
             \/ sessions[x].fate = ev /\ AllIdle
          /\ LET b == BookingOfSession(bookings, x)
                 r == [Idle EXCEPT !.kind = "webhook", !.ev = ev, !.sess = x, !.bk = b,
                                   !.snap = IF b = 0 THEN "none" ELSE bookings[b].status]
                 rn == IF b # 0 THEN [r EXCEPT !.pc = "save"]
                       ELSE IF ev = "completed" THEN Done(r, 200, "ok")
                       ELSE AfterExpiredBooking(r)
             IN /\ reqs' = Step(i, rn)
                /\ sessions' = Receipt([sessions EXCEPT ![x].fate = ev], rn)
    /\ UNCHANGED <<slots, prices, bookings, game, now, workers, bypassStripe, stripeKeySet>>
    /\ UNCHANGED <<community, auth>>

\* An expired branch that leaves the game as it is.
WebhookGame_NoReopen(g, r) ==
    IF r.ev = "completed"
    THEN IF sessions[r.sess].type = "game" /\ sessions[r.sess].gameId # 0
         THEN [g EXCEPT !.bookingStatus = "Booked"] ELSE g
    ELSE g

\* A completed branch that marks the game Booked whatever the metadata says.
WebhookGame_AnyCompleted(g, r) ==
    IF r.ev = "completed"
    THEN [g EXCEPT !.bookingStatus = "Booked"]
    ELSE IF sessions[r.sess].gameId # 0 THEN [g EXCEPT !.status = "Open"] ELSE g

\* The game update of either branch: Game.findById and game.save().
WebhookGame(g, r) ==
    IF r.ev = "completed"
    THEN IF sessions[r.sess].type = "game" /\ sessions[r.sess].gameId # 0
         THEN [g EXCEPT !.bookingStatus = "Booked"] ELSE g
    ELSE IF sessions[r.sess].gameId # 0 THEN [g EXCEPT !.status = "Open"] ELSE g

\* A catch block that acknowledges the event all the same.
ProcessingError_Acked(r) == Done(r, 200, "ok")

\* catch (err): res.status(500).send("Webhook processing error: ...")
ProcessingError(r) == Done(r, 500, "Webhook processing error")

\* booking.save() of either branch, followed by the game update.
WebhookSave(i, fails) ==
    LET r == reqs[i] IN
    /\ Quiet /\ r.kind = "webhook" /\ r.pc = "save"
    /\ fails => Injected("persist")
    /\ IF fails THEN
          /\ reqs' = Step(i, ProcessingError(r))
          /\ UNCHANGED <<bookings, game, sessions>>
       ELSE IF r.ev = "completed" THEN
          /\ bookings' = [SaveStatus(bookings, r.bk, r.snap, "Paid") EXCEPT ![r.bk].intent = r.sess]
          /\ game' = WebhookGame(game, r)
          /\ reqs' = Step(i, Done(r, 200, "ok"))
          /\ sessions' = Receipt(sessions, Done(r, 200, "ok"))
       ELSE
          /\ bookings' = SaveStatus(bookings, r.bk, r.snap, "Failed")
          /\ game' = WebhookGame(game, r)
          /\ reqs' = Step(i, AfterExpiredBooking(r))
          /\ sessions' = Receipt(sessions, AfterExpiredBooking(r))
    /\ UNCHANGED <<slots, prices, now, workers, bypassStripe, stripeKeySet>>
    /\ UNCHANGED <<community, auth>>

\* Release by the session's metadata.
WebhookRelease(i) ==
    LET r == reqs[i] IN
    /\ Quiet /\ r.kind = "webhook" /\ r.pc = "release"
    /\ slots' = ReleaseSlot(slots, sessions[r.sess].slot)
    /\ reqs' = Step(i, Done(r, 200, "ok"))
    /\ sessions' = Receipt(sessions, Done(r, 200, "ok"))
    /\ UNCHANGED <<prices, bookings, game, now, workers, bypassStripe, stripeKeySet>>
    /\ UNCHANGED <<community, auth>>

\* Fallback: TimeSlot.findOne by sub-venue and date, findIndex by the
\* booking's times, and timeSlot.save() of the entry found.
WebhookFallback(i) ==
    LET r == reqs[i]
        s == SlotByTime(StartTime(bookings[r.bk].slot), EndTime(bookings[r.bk].slot)) IN
    /\ Quiet /\ r.kind = "webhook" /\ r.pc = "fallback"
    /\ slots' = IF s = 0 THEN slots ELSE ReleaseSlot(slots, s)
    /\ reqs' = Step(i, Done([r EXCEPT !.slot = s], 200, "ok"))
    /\ sessions' = Receipt(sessions, Done(r, 200, "ok"))
    /\ UNCHANGED <<prices, bookings, game, now, workers, bypassStripe, stripeKeySet>>
    /\ UNCHANGED <<community, auth>>

\* -------------------------------------------------------------- retryPayment
\* A validation without the check of a booking that is already Paid.
RetryValidate_NoPaidCheck(u, b) ==
    IF b = 0 THEN <<400, "Booking ID is required">>
    ELSE IF bookings[b].status = "none" \/ bookings[b].user # u THEN <<404, "Booking not found">>
    ELSE IF StartTime(bookings[b].slot) < now
         THEN <<400, "Cannot retry payment for a past booking">>
    ELSE IF SlotByTime(StartTime(bookings[b].slot), EndTime(bookings[b].slot)) = 0
         THEN <<404, "Slot not found">>
    ELSE <<0, "ok">>

RetryValidate(u, b) ==
    IF b = 0 THEN <<400, "Booking ID is required">>
    ELSE IF bookings[b].status = "none" \/ bookings[b].user # u THEN <<404, "Booking not found">>
    ELSE IF bookings[b].status = "Paid" THEN <<400, "Booking is already paid">>
    ELSE IF StartTime(bookings[b].slot) < now
         THEN <<400, "Cannot retry payment for a past booking">>
    ELSE IF SlotByTime(StartTime(bookings[b].slot), EndTime(bookings[b].slot)) = 0
         THEN <<404, "Slot not found">>
    ELSE <<0, "ok">>

\* Booking.findOne, the checks, and the lookup of the slot by time.
RetryStart(i, u, b) ==
    /\ FreeReq(i) /\ NoGameInFlight
    /\ Admit(RetryValidate(u, b))
    /\ LET v == RetryValidate(u, b) IN
       reqs' = Step(i, IF v[1] # 0 THEN Rejected("retry", v[1], v[2])
                       ELSE [Idle EXCEPT !.kind = "retry", !.pc = "lock", !.user = u, !.bk = b,
                               !.snap = bookings[b].status, !.sport = bookings[b].sport,
                               !.price = bookings[b].amount,
                               !.slot = SlotByTime(StartTime(bookings[b].slot),
                                                   EndTime(bookings[b].slot))])
    /\ UNCHANGED <<slots, prices, bookings, sessions, game, now, workers, bypassStripe, stripeKeySet>>
    /\ UNCHANGED <<community, auth>>

RetryLock(i) ==
    LET r == reqs[i] IN
    /\ Quiet /\ r.kind = "retry" /\ r.pc = "lock"
    /\ IF LockMatches(slots, r.slot)
       THEN \E p \in LockPositions(slots, r.slot) :
              /\ slots' = AtomicLock(slots, p, r.sport)
              /\ reqs' = Step(i, [r EXCEPT !.pc = "pay", !.didLock = TRUE, !.took = Taken(slots, p)])
       ELSE /\ reqs' = Step(i, IF r.snap = "Failed"
                               THEN Done(r, 400, "Slot is no longer available")
                               ELSE [r EXCEPT !.pc = "reread"])
            /\ UNCHANGED slots
    /\ UNCHANGED <<prices, bookings, sessions, game, now, workers, bypassStripe, stripeKeySet>>
    /\ UNCHANGED <<community, auth>>

\* Pending branch, lock not obtained: TimeSlot.findById and the status check.
RetryReread(i) ==
    LET r == reqs[i] IN
    /\ Quiet /\ r.kind = "retry" /\ r.pc = "reread"
    /\ reqs' = Step(i, IF slots[r.slot].status # "booked"
                       THEN Done(r, 400, "Slot is not available for retry")
                       ELSE [r EXCEPT !.pc = "pay"])
    /\ UNCHANGED <<slots, prices, bookings, sessions, game, now, workers, bypassStripe, stripeKeySet>>
    /\ UNCHANGED <<community, auth>>

\* A retry that prices the session from the current price list.
RetryAmount_Repriced(b) == priceInPaise(PriceOf(prices, bookings[b].slot, bookings[b].sport))

\* unit_amount of the retry session: booking.amount
RetryAmount(b) == bookings[b].amount

\* The error, if any, raised by the try block of retryPayment.
RetryError(fault) ==
    IF ~stripeKeySet THEN <<500, "STRIPE_SECRET_KEY is not set">>
    ELSE IF fault = "session" THEN <<500, "Stripe error">>
    ELSE IF fault \in {"persist", "game"} THEN <<500, "Database error">>
    ELSE <<0, "ok">>

\* The try block: a new session for the stored amount, booking.save() with the
\* new session id and status Pending, the game put back to Full; the catch
\* block unlocks the slot only if this call locked it.
RetryPay(i, fault) ==
    LET r == reqs[i]
        e == RetryError(fault)
        made == stripeKeySet /\ fault # "session"
        saved == made /\ fault # "persist" IN
    /\ Quiet /\ r.kind = "retry" /\ r.pc = "pay"
    /\ made => FreeSessionIds # {}
    /\ fault = "game" => bookings[r.bk].game # 0
    /\ fault # "none" => stripeKeySet
    /\ Injected(fault)
    /\ LET x == IF made THEN Min(FreeSessionIds) ELSE 0
           rx == [r EXCEPT !.sess = x] IN
       /\ sessions' = IF made
                      THEN [sessions EXCEPT ![x] =
                              NewSession("retry", r.bk, 0, 0, RetryAmount(r.bk), 0, Stray(r))]
                      ELSE sessions
       /\ bookings' = IF saved
                      THEN [SaveStatus(bookings, r.bk, r.snap, "Pending") EXCEPT ![r.bk].session = x]
                      ELSE bookings
       /\ game' = IF saved /\ fault # "game" /\ bookings[r.bk].game # 0
                  THEN [game EXCEPT !.status = "Full"] ELSE game
       /\ slots' = IF e[1] # 0 /\ r.didLock THEN ReleaseSlot(slots, r.slot) ELSE slots
       /\ reqs' = Step(i, IF e[1] = 0 THEN Done(rx, 200, "url") ELSE Done(rx, e[1], e[2]))
    /\ UNCHANGED <<prices, now, workers, bypassStripe, stripeKeySet>>
    /\ UNCHANGED <<community, auth>>

\* ---------------------------------------------------------- startGameBooking
\* A validation that lets any user start the booking of the game.
GameValidate_NoHostCheck(u, g) ==
    IF g # GameId THEN <<404, "Game not found">>
    ELSE IF game.bookingStatus = "Booked" \/ game.status = "Completed"
         THEN <<400, "This game is already booked or completed">>
    ELSE IF game.approved < GameMinPlayers THEN <<400, "Need at least 2 players to book">>
    ELSE IF slots[GameSlot].status # "available" THEN <<400, "Slot is no longer available">>
    ELSE <<0, "ok">>

GameValidate(u, g) ==
    IF g # GameId THEN <<404, "Game not found">>
    ELSE IF u # GameHost THEN <<403, "Only the host can start booking">>
    ELSE IF game.bookingStatus = "Booked" \/ game.status = "Completed"
         THEN <<400, "This game is already booked or completed">>
    ELSE IF game.approved < GameMinPlayers THEN <<400, "Need at least 2 players to book">>
    ELSE IF slots[GameSlot].status # "available" THEN <<400, "Slot is no longer available">>
    ELSE <<0, "ok">>

\* startGameBooking is taken when nothing else is in flight, or beside one
\* direct booking that is about to lock.
AloneOrBesideLock ==
    \A j \in ReqIds : reqs[j].pc = "idle" \/ (reqs[j].kind = "direct" /\ reqs[j].pc = "lock")

\* Game.findById, the checks on the game, TimeSlot.findById and the check of
\* the status read.
GameStart(i, u, g) ==
    /\ FreeReq(i) /\ AloneOrBesideLock
    /\ Admit(GameValidate(u, g))
    /\ LET v == GameValidate(u, g) IN
       reqs' = Step(i, IF v[1] # 0 THEN Rejected("game", v[1], v[2])
                       ELSE [Idle EXCEPT !.kind = "game", !.pc = "lock", !.user = u,
                               !.slot = GameSlot, !.sport = GameSport,
                               !.price = priceInPaise(GamePrice)])
    /\ UNCHANGED <<slots, prices, bookings, sessions, game, now, workers, bypassStripe, stripeKeySet>>
    /\ UNCHANGED <<community, auth>>

GameLock(i) ==
    LET r == reqs[i] IN
    /\ Quiet /\ r.kind = "game" /\ r.pc = "lock"
    /\ IF LockMatches(slots, r.slot)
       THEN \E p \in LockPositions(slots, r.slot) :
              /\ slots' = AtomicLock(slots, p, r.sport)
              /\ reqs' = Step(i, [r EXCEPT !.pc = "book", !.didLock = TRUE, !.took = Taken(slots, p)])
       ELSE /\ reqs' = Step(i, Done(r, 400, "Slot is no longer available"))
            /\ UNCHANGED slots
    /\ UNCHANGED <<prices, bookings, sessions, game, now, workers, bypassStripe, stripeKeySet>>
    /\ UNCHANGED <<community, auth>>

\* A rollback that sets the status and leaves bookedForSport as it was.
GameRollback_KeepSport(sl, s) == [sl EXCEPT ![s].status = "available"]

\* TimeSlot.updateOne({_id, "slots._id": slotId}, $set status "available",
\* bookedForSport null)
GameRollback(sl, s) == SetSlot(sl, s, "available", "none")

\* The try block after the lock and its rollback by TimeSlot.updateOne.
GameBook(i, fault) ==
    LET r == reqs[i]
        e == TryError(fault) IN
    /\ Quiet /\ r.kind = "game" /\ r.pc = "book"
    /\ FreeBookingIds # {}
    /\ SessionMade(fault) => FreeSessionIds # {}
    /\ fault = "session" => ~bypassStripe /\ stripeKeySet
    /\ Injected(fault)
    /\ LET b == Min(FreeBookingIds)
           x == IF SessionMade(fault) THEN Min(FreeSessionIds) ELSE 0
           rb == [r EXCEPT !.bk = b, !.sess = IF bypassStripe THEN 0 - b ELSE x]
       IN
       /\ sessions' = IF SessionMade(fault)
                      THEN [sessions EXCEPT ![x] =
                              NewSession("game", b, r.slot, GameId, r.price, SessionExpirySeconds, Stray(r))]
                      ELSE sessions
       /\ IF e[1] = 0
          THEN /\ bookings' = [bookings EXCEPT ![b] = NewBooking(rb, x, GameId)]
               /\ game' = IF bypassStripe
                          THEN [game EXCEPT !.status = "Full", !.bookingStatus = "Booked"]
                          ELSE game
               /\ reqs' = Step(i, Done(rb, 201, IF bypassStripe THEN "demo" ELSE "url"))
               /\ UNCHANGED slots
          ELSE /\ slots' = GameRollback(slots, r.slot)
               /\ reqs' = Step(i, Done(rb, e[1], e[2]))
               /\ UNCHANGED <<bookings, game>>
    /\ UNCHANGED <<prices, now, workers, bypassStripe, stripeKeySet>>
    /\ UNCHANGED <<community, auth>>

\* --------------------------------------------------------------- environment
\* The answer of a finished handler reaches its caller.
Deliver(i) ==
    /\ reqs[i].pc = "done"
    /\ reqs' = Step(i, Idle)
    /\ UNCHANGED <<slots, prices, bookings, sessions, game, now, workers, bypassStripe, stripeKeySet>>
    /\ UNCHANGED <<community, auth>>

\* Time passes or prices are revised between requests, in the runs of one
\* worker; the overlapping requests of two workers see one clock and one list.
Tick ==
    /\ AllIdle /\ workers = 1 /\ now < MaxTime
    /\ \A s \in SlotIds : prices[s]["Cricket"] = BasePrice
    /\ now' = now + 1
    /\ UNCHANGED <<slots, prices, bookings, sessions, game, reqs, workers, bypassStripe, stripeKeySet>>
    /\ UNCHANGED <<community, auth>>

\* The venue's price list is revised.
UpdatePrices ==
    /\ AllIdle /\ workers = 1 /\ now = 0
    /\ \E s \in SlotIds : prices[s]["Cricket"] = BasePrice
    /\ prices' = [s \in SlotIds |-> [prices[s] EXCEPT !["Cricket"] = RaisedPrice]]
    /\ UNCHANGED <<slots, bookings, sessions, game, reqs, now, workers, bypassStripe, stripeKeySet>>
    /\ UNCHANGED <<community, auth>>

Faults == {"none", "session", "persist"}

\* What the lookups of a direct booking find: everything, or no time-slot
\* document, no sub-venue, no venue.
Lookups == {"ok", "noDoc", "noSubVenue", "noVenue"}

\* event.type of the requests the endpoint receives
EventTypes == {"completed", "expired", "payment_intent.payment_failed",
               "payment_intent.succeeded", "other"}

Next ==
    \/ \E i \in ReqIds, s \in SlotIds \cup {0, 3}, sp \in Sports \cup {"none"},
          lookup \in Lookups : DirectStart(i, s, sp, lookup)
    \/ \E i \in ReqIds : DirectLock(i)
    \/ \E i \in ReqIds, f \in Faults : DirectBook(i, f)
    \/ \E i \in ReqIds, x \in SessionIds \cup {0}, ev \in EventTypes, sigOk \in BOOLEAN :
          WebhookStart(i, x, ev, sigOk)
    \/ \E i \in ReqIds, f \in BOOLEAN : WebhookSave(i, f)
    \/ \E i \in ReqIds : WebhookRelease(i)
    \/ \E i \in ReqIds : WebhookFallback(i)
    \/ \E i \in ReqIds, u \in Users, b \in BookingIds \cup {0} : RetryStart(i, u, b)
    \/ \E i \in ReqIds : RetryLock(i)
    \/ \E i \in ReqIds : RetryReread(i)
    \/ \E i \in ReqIds, f \in Faults \cup {"game"} : RetryPay(i, f)
    \/ \E i \in ReqIds, u \in Users, g \in {GameId, 0} : GameStart(i, u, g)
    \/ \E i \in ReqIds : GameLock(i)
    \/ \E i \in ReqIds, f \in Faults : GameBook(i, f)
    \/ \E i \in ReqIds : Deliver(i)
    \/ Tick
    \/ UpdatePrices

Spec == Init /\ [][Next]_vars

\* ------------------------------------------------- hostGame, joins, leaveGame
\* The users of the game controllers, the capacities a host may ask for and
\* the whole hours between a request and the start of the slot.
Players == {"u1", "u2", "u3"}
Capacities == {2, 3}
MaxHoursAhead == 3
CancelNoticeHours == 2

InSeq(u, q) == \E k \in 1..Len(q) : q[k] = u
Without(q, u) == SelectSeq(q, LAMBDA x : x # u)

CallIdle == call.pc = "idle"
Answer(c, code, msg) == [c EXCEPT !.pc = "done", !.resp = code, !.err = msg]

\* Game.create: the host is the first approved player, nobody has asked to join.
hostGame(u, mx, hrs) ==
    /\ CallIdle /\ hosted.status = "none"
    /\ hosted' = [status |-> "Open", host |-> u, approvedPlayers |-> <<u>>, joinRequests |-> <<>>,
                  bookingStatus |-> "NotBooked", max |-> mx, startsIn |-> hrs]
    /\ call' = Answer([NoCall EXCEPT !.op = "host", !.user = u], 201, "Game hosted successfully")
    /\ UNCHANGED <<payments, auth>>

\* A user asks to join an Open game.
requestJoin(u) ==
    /\ CallIdle /\ hosted.status = "Open"
    /\ ~InSeq(u, hosted.approvedPlayers) /\ ~InSeq(u, hosted.joinRequests)
    /\ hosted' = [hosted EXCEPT !.joinRequests = Append(@, u)]
    /\ UNCHANGED <<call, payments, auth>>

\* The host approves a request: the user joins approvedPlayers, the request
\* entry stays, and the game is Full once the approved count reaches max.
approveJoin(u) ==
    /\ CallIdle /\ hosted.status = "Open"
    /\ InSeq(u, hosted.joinRequests) /\ ~InSeq(u, hosted.approvedPlayers)
    /\ Len(hosted.approvedPlayers) < hosted.max
    /\ hosted' = [hosted EXCEPT !.approvedPlayers = Append(@, u),
                                !.status = IF Len(hosted.approvedPlayers) + 1 = hosted.max
                                           THEN "Full" ELSE "Open"]
    /\ UNCHANGED <<call, payments, auth>>

\* The booking flow has booked the slot of the game.
slotBooked ==
    /\ hosted.status \in {"Open", "Full"} /\ hosted.bookingStatus = "NotBooked"
    /\ hosted' = [hosted EXCEPT !.bookingStatus = "Booked"]
    /\ UNCHANGED <<call, payments, auth>>

\* An hour passes.
hourPasses ==
    /\ hosted.status # "none" /\ hosted.startsIn > 0
    /\ hosted' = [hosted EXCEPT !.startsIn = @ - 1]
    /\ UNCHANGED <<call, payments, auth>>

\* The checks of leaveGame on the document read in the transaction.
LeaveValidate(u, found) ==
    IF ~found \/ hosted.status = "none" THEN <<404, "Game not found">>
    ELSE IF hosted.bookingStatus = "Booked"
         THEN <<400, "Cannot leave the game because slot is already booked">>
    ELSE IF ~InSeq(u, hosted.approvedPlayers) THEN <<400, "You are not approved for this game">>
    ELSE <<0, "ok">>

\* A leave that takes the player off the lists and leaves the status alone.
LeaveApply_KeepStatus(g, u) ==
    [g EXCEPT !.approvedPlayers = Without(@, u), !.joinRequests = Without(@, u)]

\* The changes leaveGame makes to the document in memory: the player is taken
\* off approvedPlayers and joinRequests, and a Full game that is now under
\* playersNeeded.max is Open.
LeaveApply(g, u) ==
    [g EXCEPT !.approvedPlayers = Without(@, u), !.joinRequests = Without(@, u),
              !.status = IF g.status = "Full" /\ Len(Without(g.approvedPlayers, u)) < g.max
                         THEN "Open" ELSE g.status]

\* An abort that leaves the session open.
LeaveAbort_NoEnd(c) == [c EXCEPT !.txn = "aborted"]

\* session.abortTransaction(); session.endSession()
LeaveAbort(c) == [c EXCEPT !.txn = "aborted", !.ended = TRUE]

\* startSession, startTransaction, Game.findById(gameId).session(session), the
\* checks and the changes to the document in memory.
leaveGameStart(u, found) ==
    LET v == LeaveValidate(u, found)
        c == [NoCall EXCEPT !.op = "leave", !.user = u, !.txn = "active"] IN
    /\ CallIdle
    /\ call' = IF v[1] # 0 THEN Answer(LeaveAbort(c), v[1], v[2])
               ELSE [c EXCEPT !.pc = "save", !.copy = LeaveApply(hosted, u)]
    /\ UNCHANGED <<hosted, payments, auth>>

\* game.save({ session }): the write belongs to the transaction and is not
\* stored before the commit; a failing save aborts.
leaveGameSave(fails) ==
    /\ call.op = "leave" /\ call.pc = "save"
    /\ call' = IF fails THEN Answer(LeaveAbort(call), 500, "Database error")
               ELSE [call EXCEPT !.pc = "commit"]
    /\ UNCHANGED <<hosted, payments, auth>>

\* What a commit stores: the paths leaveGame changed, together.
Committed(g, copy) ==
    [g EXCEPT !.approvedPlayers = copy.approvedPlayers, !.joinRequests = copy.joinRequests,
              !.status = copy.status]

\* session.commitTransaction(), session.endSession() and the answer.
leaveGameCommit ==
    /\ call.op = "leave" /\ call.pc = "commit"
    /\ hosted' = Committed(hosted, call.copy)
    /\ call' = Answer([call EXCEPT !.txn = "committed", !.ended = TRUE], 200, "You have left the game")
    /\ UNCHANGED <<payments, auth>>

\* A cancelGame that asks for more than two hours of notice.
CancelValidate_StrictNotice(u, found) ==
    IF ~found \/ hosted.status = "none" THEN <<404, "Game not found">>
    ELSE IF hosted.host # u THEN <<403, "Only the host can cancel this game">>
    ELSE IF hosted.bookingStatus = "Booked"
         THEN <<400, "Cannot cancel a game after the slot is booked.">>
    ELSE IF hosted.startsIn <= CancelNoticeHours
         THEN <<400, "Games can only be cancelled at least 2 hours in advance">>
    ELSE <<0, "ok">>

\* The checks of cancelGame.
CancelValidate(u, found) ==
    IF ~found \/ hosted.status = "none" THEN <<404, "Game not found">>
    ELSE IF hosted.host # u THEN <<403, "Only the host can cancel this game">>
    ELSE IF hosted.bookingStatus = "Booked"
         THEN <<400, "Cannot cancel a game after the slot is booked.">>
    ELSE IF hosted.startsIn < CancelNoticeHours
         THEN <<400, "Games can only be cancelled at least 2 hours in advance">>
    ELSE <<0, "ok">>

\* Game.findById, the checks, status Cancelled and game.save().
cancelGame(u, found) ==
    LET v == CancelValidate(u, found)
        c == [NoCall EXCEPT !.op = "cancel", !.user = u] IN
    /\ CallIdle
    /\ hosted' = IF v[1] = 0 THEN [hosted EXCEPT !.status = "Cancelled"] ELSE hosted
    /\ call' = IF v[1] = 0 THEN Answer(c, 200, "Game cancelled successfully")
               ELSE Answer(c, v[1], v[2])
    /\ UNCHANGED <<payments, auth>>

\* The answer of a call reaches its caller.
callReturns ==
    /\ call.pc = "done"
    /\ call' = NoCall
    /\ UNCHANGED <<hosted, payments, auth>>

\* The payment flows at rest.
PaymentsAtRest ==
    /\ slots = [s \in SlotIds |-> [status |-> "available", bookedForSport |-> "none"]]
    /\ prices = [s \in SlotIds |-> [sp \in Sports |-> IF sp = "Cricket" THEN BasePrice ELSE 0]]
    /\ bookings = [b \in BookingIds |-> NoBooking]
    /\ sessions = [x \in SessionIds |-> NoSession]
    /\ game = [status |-> "Open", bookingStatus |-> "NotBooked", approved |-> GameMinPlayers]
    /\ reqs = [i \in ReqIds |-> Idle]
    /\ now = 0 /\ workers = 1 /\ bypassStripe = FALSE /\ stripeKeySet = TRUE

GameInit == PaymentsAtRest /\ hosted = NoGame /\ call = NoCall /\ auth = NoAuth

GameNext ==
    \/ \E u \in Players, mx \in Capacities, hrs \in 1..MaxHoursAhead : hostGame(u, mx, hrs)
    \/ \E u \in Players : requestJoin(u)
    \/ \E u \in Players : approveJoin(u)
    \/ slotBooked
    \/ hourPasses
    \/ \E u \in Players, found \in BOOLEAN : leaveGameStart(u, found)
    \/ \E fails \in BOOLEAN : leaveGameSave(fails)
    \/ leaveGameCommit
    \/ \E u \in Players, found \in BOOLEAN : cancelGame(u, found)
    \/ callReturns

GameSpec == GameInit /\ [][GameNext]_vars

\* -------------------------------------------------------------------- protect
Headers == {"missing", "notBearer", "emptyToken", "bearer"}
\* What jwt.verify does with the token: it returns the payload or throws.
Verifications == {"ok", "TokenExpiredError", "JsonWebTokenError", "NotBeforeError", "Error"}
\* What User.findById(...).select(...) does: a user, null, or it rejects.
UserLookups == {"found", "null", "rejects"}

\* error instanceof jwt.JsonWebTokenError: TokenExpiredError and NotBeforeError
\* are subclasses of JsonWebTokenError.
IsJsonWebTokenError(e) == e \in {"JsonWebTokenError", "TokenExpiredError", "NotBeforeError"}

Reject(a, code, msg) == [a EXCEPT !.pc = "done", !.status = code, !.msg = msg]

\* A request reaches the middleware.
protectStart(h, v, l) ==
    /\ auth.pc = "idle"
    /\ auth' = [NoAuth EXCEPT !.pc = "header", !.header = h, !.verify = v, !.lookup = l]
    /\ UNCHANGED <<payments, community>>

\* The Authorization header and the token taken from it.
protectHeader ==
    /\ auth.pc = "header"
    /\ auth' = IF auth.header = "missing"
               THEN Reject(auth, 401, "Authorization header missing")
               ELSE IF auth.header = "notBearer"
               THEN Reject(auth, 401, "Invalid Authorization format")
               ELSE IF auth.header = "emptyToken"
               THEN Reject(auth, 401, "Token is empty")
               ELSE [auth EXCEPT !.pc = "verify"]
    /\ UNCHANGED <<payments, community>>

\* jwt.verify and the catch block around it.
protectVerify ==
    /\ auth.pc = "verify"
    /\ auth' = IF auth.verify = "ok" THEN [auth EXCEPT !.pc = "lookup"]
               ELSE IF auth.verify = "TokenExpiredError"
               THEN Reject(auth, 401, "Token verification failed: token has expired")
               ELSE IF IsJsonWebTokenError(auth.verify)
               THEN Reject(auth, 401, "Token verification failed: invalid or tampered token")
               ELSE IF auth.verify = "NotBeforeError"
               THEN Reject(auth, 401, "Token verification failed: token not yet active")
               ELSE Reject(auth, 401, "Unexpected token verification error")
    /\ UNCHANGED <<payments, community>>

\* A lookup whose catch block rethrows what the try block threw.
LookupFailure_Rethrow(a, code, cause) == Reject([a EXCEPT !.cause = "none"], code, cause)

\* The catch block of the lookup: whatever the try block threw, and whatever
\* status it had set, the answer is 500 "Database lookup failed" with the
\* message of what was thrown.
LookupFailure(a, code, cause) ==
    Reject([a EXCEPT !.cause = cause], 500, "Database lookup failed")

\* User.findById inside its try block, and next().
protectLookup ==
    /\ auth.pc = "lookup"
    /\ auth' = IF auth.lookup = "found"
               THEN [auth EXCEPT !.pc = "done", !.user = "user", !.next = TRUE]
               ELSE IF auth.lookup = "null"
               THEN LookupFailure(auth, 401, "Authentication failed: user not found or has been removed")
               ELSE LookupFailure(auth, auth.status, "lookup error")
    /\ UNCHANGED <<payments, community>>

\* The request is over.
protectEnds ==
    /\ auth.pc = "done"
    /\ auth' = NoAuth
    /\ UNCHANGED <<payments, community>>

AuthInit == PaymentsAtRest /\ hosted = NoGame /\ call = NoCall /\ auth = NoAuth

AuthNext ==
    \/ \E h \in Headers, v \in Verifications, l \in UserLookups : protectStart(h, v, l)
    \/ protectHeader
    \/ protectVerify
    \/ protectLookup
    \/ protectEnds

AuthSpec == AuthInit /\ [][AuthNext]_vars

\* -------------------------------------------------------------- properties
Persisted(b) == bookings[b].status # "none"

\* A lock step of request i: the conditional update of an attempt is applied.
LockStep(i) == reqs[i].pc = "lock" /\ reqs'[i].pc # "lock"

\* C1: among the reservation attempts on one slot (the lock step of
\* createDirectBooking, startGameBooking and retryPayment) an attempt sees its
\* lock succeed only when it finds the slot available, so at most one of the
\* attempts that overlap wins; an attempt that finds the slot taken is answered
\* 400 "Slot is no longer available" and leaves no booking and no session.
C1_SingleLockWinner ==
    [][\A i \in ReqIds : LockStep(i) =>
          IF slots[reqs[i].slot].status = "available"
          THEN reqs'[i].didLock
          ELSE /\ ~reqs'[i].didLock
               /\ reqs[i].snap # "Pending" =>
                     /\ reqs'[i].pc = "done" /\ reqs'[i].resp = 400
                     /\ reqs'[i].err = "Slot is no longer available"
               /\ UNCHANGED <<bookings, sessions>>]_vars

\* C2: at no time do two bookings with status Paid refer to the same slot
\* entry (same sub-venue, date, start and end time).
C2_OnePaidPerSlot ==
    \A a \in BookingIds, b \in BookingIds :
        (a # b /\ bookings[a].status = "Paid" /\ bookings[b].status = "Paid")
            => bookings[a].slot # bookings[b].slot

\* C3: when createDirectBooking fails after its lock succeeded (the key is
\* missing, the session creation throws or Booking.create throws), the slot it
\* asked for ends available with bookedForSport cleared, no booking is left,
\* and the caller is answered with the error that was raised, not a success.
C3_DirectCompensation ==
    \A i \in ReqIds :
        (reqs[i].kind = "direct" /\ reqs[i].pc = "done" /\ reqs[i].didLock /\ reqs[i].resp # 201)
            => /\ slots[reqs[i].slot] = [status |-> "available", bookedForSport |-> "none"]
               /\ ~Persisted(reqs[i].bk)
               /\ reqs[i].resp = 500
               /\ reqs[i].err = IF ~bypassStripe /\ ~stripeKeySet THEN "STRIPE_SECRET_KEY is not set"
                                ELSE IF reqs[i].sess = 0 THEN "Stripe error"
                                ELSE "Database error"

\* Booking.create has thrown after the session was made, and the request is answered.
C3_Witness ==
    \E i \in ReqIds :
        /\ reqs[i].kind = "direct" /\ reqs[i].pc = "done" /\ reqs[i].didLock
        /\ reqs[i].err = "Database error" /\ reqs[i].sess \in SessionIds
        /\ reqs[i].took = reqs[i].slot

\* C4: a booking whose status is Paid keeps that status in every later step,
\* whatever retryPayment call or webhook event takes the step.
C4_PaidIsStable ==
    [][\A b \in BookingIds : bookings[b].status = "Paid" => bookings'[b].status = "Paid"]_vars

\* C5: a failing retryPayment sets the slot back to available only if the
\* same call turned that slot from available to booked; a call that went on
\* with a slot it found booked leaves the slot as it is when it fails.
C5_RetryReleasesOwnLock ==
    [][\A i \in ReqIds :
          (reqs[i].kind = "retry" /\ reqs[i].pc = "pay" /\ reqs'[i].pc = "done"
             /\ reqs[i].took # reqs[i].slot)
              => slots' = slots]_vars

\* C6: the amount of a booking never changes once the booking exists, also
\* when the price list has been revised, and the session of a retry is made for
\* exactly the amount stored on the booking.
C6_AmountImmutable ==
    [][/\ \A b \in BookingIds : Persisted(b) => bookings'[b].amount = bookings[b].amount
       /\ \A x \in SessionIds :
             (sessions[x].type = "none" /\ sessions'[x].type = "retry")
                 => sessions'[x].amount = bookings[sessions'[x].bookingId].amount]_vars

\* A retry has been answered with a session after the price list was revised.
C6_Witness ==
    \E i \in ReqIds :
        /\ reqs[i].kind = "retry" /\ reqs[i].pc = "done" /\ reqs[i].resp = 200
        /\ PriceOf(prices, reqs[i].slot, reqs[i].sport) = RaisedPrice
        /\ sessions[reqs[i].sess].amount = priceInPaise(BasePrice)
        /\ bookings[reqs[i].bk].amount = priceInPaise(BasePrice)

Issued(x) == sessions[x].type # "none"

\* Every session the processor issued has expired, the expired event has been
\* answered 200, and no request is in flight.
Settled ==
    /\ AllIdle /\ ~bypassStripe
    /\ \E x \in SessionIds : Issued(x)
    /\ \A x \in SessionIds : Issued(x) => sessions[x].fate = "expired" /\ sessions[x].acked

\* C7: when no session is ever completed and the expired event of every
\* issued session has been delivered and answered, every slot entry that a
\* reservation or retry with a session had locked is available again and the
\* booking of every session is Failed.
C7_AbandonedPaymentsRelease ==
    Settled =>
        \A x \in SessionIds : (Issued(x) /\ Persisted(sessions[x].bookingId)) =>
            LET b == sessions[x].bookingId IN
            /\ bookings[b].status = "Failed"
            /\ slots[bookings[b].slot].status = "available"
            /\ sessions[x].stray # 0 => slots[sessions[x].stray].status = "available"

\* C8: a createDirectBooking answered 201 in normal mode, served on its own,
\* leaves the slot it asked for booked for the sport, has persisted exactly one
\* booking, Pending, for the price times 100, whose id is the bookingId of the
\* session metadata, and answers with the session's URL and that id.
C8_DirectBookingPostState ==
    [][\A i \in ReqIds :
          (workers = 1 /\ ~bypassStripe /\ reqs[i].kind = "direct" /\ reqs[i].pc = "book"
             /\ reqs'[i].pc = "done" /\ reqs'[i].resp = 201)
              => LET r == reqs'[i] IN
                 /\ slots'[r.slot] = [status |-> "booked", bookedForSport |-> r.sport]
                 /\ {b \in BookingIds : bookings'[b] # bookings[b]} = {r.bk}
                 /\ bookings[r.bk].status = "none"
                 /\ bookings'[r.bk].status = "Pending"
                 /\ bookings'[r.bk].amount = PriceOf(prices, r.slot, r.sport) * 100
                 /\ sessions'[r.sess].bookingId = r.bk
                 /\ bookings'[r.bk].session = r.sess
                 /\ r.err = "url"]_vars

\* C9: after the webhook has handled, on its own, a session-expired event for
\* the session of a Pending booking whose metadata names the slot, the
\* booking is Failed, the game of the metadata (if any) is Open and the slot
\* is available with bookedForSport cleared.
C9_ExpiredEvent ==
    \A i \in ReqIds :
        (workers = 1 /\ reqs[i].kind = "webhook" /\ reqs[i].pc = "done" /\ reqs[i].resp = 200
           /\ reqs[i].ev = "expired" /\ reqs[i].snap = "Pending" /\ sessions[reqs[i].sess].slot # 0)
            => /\ bookings[reqs[i].bk].status = "Failed"
               /\ sessions[reqs[i].sess].gameId # 0 => game.status = "Open"
               /\ slots[sessions[reqs[i].sess].slot] = [status |-> "available", bookedForSport |-> "none"]

\* The expired event of a game booking's session has been handled.
C9_Witness ==
    \E i \in ReqIds :
        /\ workers = 1 /\ reqs[i].kind = "webhook" /\ reqs[i].pc = "done" /\ reqs[i].resp = 200
        /\ reqs[i].ev = "expired" /\ reqs[i].snap = "Pending"
        /\ sessions[reqs[i].sess].gameId = GameId /\ sessions[reqs[i].sess].slot = GameSlot
        /\ bookings[reqs[i].bk].status = "Failed" /\ game.status = "Open"

\* C10: the step that handles a session-completed event for a session with a
\* booking makes the booking Paid with the event's payment intent, and sets the
\* game's bookingStatus to Booked exactly when the metadata has type game and
\* a gameId (the game is untouched otherwise); for a session without booking
\* the event is answered 200 and no booking, game or slot changes.
C10_CompletedEvent ==
    [][\A i \in ReqIds :
          /\ (reqs[i].kind = "webhook" /\ reqs[i].ev = "completed" /\ reqs[i].pc = "save"
                /\ reqs'[i].pc = "done" /\ reqs'[i].resp = 200)
               => LET r == reqs[i] IN
                  /\ bookings'[r.bk].status = "Paid"
                  /\ bookings'[r.bk].intent = r.sess
                  /\ IF sessions[r.sess].type = "game" /\ sessions[r.sess].gameId # 0
                     THEN game' = [game EXCEPT !.bookingStatus = "Booked"]
                     ELSE game' = game
          /\ (reqs[i].pc = "idle" /\ reqs'[i].kind = "webhook" /\ reqs'[i].ev = "completed"
                /\ reqs'[i].sess # 0 /\ reqs'[i].bk = 0)
               => /\ reqs'[i].pc = "done" /\ reqs'[i].resp = 200
                  /\ UNCHANGED <<bookings, game, slots>>]_vars

\* The completed event of a game booking's session has been handled.
C10_Witness ==
    \E i \in ReqIds :
        /\ reqs[i].kind = "webhook" /\ reqs[i].ev = "completed" /\ reqs[i].pc = "done"
        /\ reqs[i].resp = 200 /\ reqs[i].bk # 0
        /\ sessions[reqs[i].sess].type = "game"
        /\ bookings[reqs[i].bk].status = "Paid" /\ game.bookingStatus = "Booked"

\* C11: a webhook request whose signature does not verify is answered 400,
\* whatever session and event type its payload names, and the handler has
\* looked up no booking and changed no booking, game, slot or session.
C11_BadSignature ==
    [][\A i \in ReqIds : (reqs[i].pc = "idle" /\ reqs'[i].kind = "webhook") =>
        \A x \in SessionIds \cup {0}, ev \in EventTypes :
          WebhookStart(i, x, ev, FALSE)
              => /\ reqs'[i].pc = "done" /\ reqs'[i].resp = 400
                 /\ reqs'[i].bk = 0 /\ reqs'[i].snap = "none"
                 /\ UNCHANGED <<bookings, game, slots, sessions>>]_vars

\* A request with a bad signature has been answered while a Pending booking exists.
C11_Witness ==
    \E i \in ReqIds :
        /\ reqs[i].kind = "webhook" /\ reqs[i].pc = "done" /\ reqs[i].resp = 400
        /\ \E b \in BookingIds : bookings[b].status = "Pending"

\* C12: a verified event of a type other than session-completed and
\* session-expired is answered 200 and leaves every booking, game, slot and
\* session as it was.
C12_OtherEventTypes ==
    [][\A i \in ReqIds : (reqs[i].pc = "idle" /\ reqs'[i].kind = "webhook") =>
        \A x \in SessionIds \cup {0}, ev \in EventTypes \ {"completed", "expired"} :
          WebhookStart(i, x, ev, TRUE)
              => /\ reqs'[i].pc = "done" /\ reqs'[i].resp = 200
                 /\ UNCHANGED <<bookings, game, slots, sessions>>]_vars

\* A failed-payment event has been acknowledged while a Pending booking exists.
C12_Witness ==
    \E i \in ReqIds :
        /\ reqs[i].kind = "webhook" /\ reqs[i].pc = "done" /\ reqs[i].resp = 200
        /\ reqs[i].err = "payment_intent.payment_failed"
        /\ \E b \in BookingIds : bookings[b].status = "Pending"

\* C13: the step in which the webhook handler answers gives one status: 400
\* when the signature failed, 500 when the processing of a verified event
\* threw, 200 in every other case (no booking found and unhandled types
\* included); the answer is the only way the handler ends.
C13_OneStatus ==
    [][\A i \in ReqIds :
          (reqs'[i].kind = "webhook" /\ reqs[i].pc # "done" /\ reqs'[i].pc = "done")
              => reqs'[i].resp =
                    IF \E x \in SessionIds \cup {0}, ev \in EventTypes : WebhookStart(i, x, ev, FALSE)
                    THEN 400
                    ELSE IF WebhookSave(i, TRUE) THEN 500
                    ELSE 200]_vars

\* The processing of a verified event has thrown and the request is answered.
C13_Witness ==
    \E i \in ReqIds :
        /\ reqs[i].kind = "webhook" /\ reqs[i].pc = "done" /\ reqs[i].resp = 500
        /\ reqs[i].bk # 0 /\ bookings[reqs[i].bk].status = reqs[i].snap

\* C14: within one createDirectBooking the lock has succeeded in an earlier
\* step when the session is created and when the booking is persisted; the
\* request writes the slot store only in its lock step and in the step where
\* the try block fails, and when the error reaches the caller the slot asked
\* for has been released.
C14_DirectOrdering ==
    [][/\ \A x \in SessionIds :
             (sessions[x].type = "none" /\ sessions'[x].type = "direct")
                 => \E i \in ReqIds : /\ reqs[i].kind = "direct" /\ reqs[i].pc = "book"
                                      /\ reqs[i].didLock /\ reqs'[i].sess = x
       /\ \A b \in BookingIds :
             (~Persisted(b) /\ bookings'[b].status # "none" /\ bookings'[b].game = 0)
                 => \E i \in ReqIds : /\ reqs[i].kind = "direct" /\ reqs[i].pc = "book"
                                      /\ reqs[i].didLock /\ reqs'[i].bk = b
       /\ \A i \in ReqIds :
             (reqs[i].kind = "direct" /\ reqs'[i] # reqs[i] /\ slots' # slots)
                 => \/ LockStep(i)
                    \/ reqs[i].pc = "book" /\ reqs'[i].pc = "done" /\ reqs'[i].resp # 201
       /\ \A i \in ReqIds :
             (reqs[i].kind = "direct" /\ reqs[i].pc = "done" /\ reqs[i].didLock
                /\ reqs[i].resp # 201 /\ reqs'[i].pc = "idle")
                 => slots[reqs[i].slot].status = "available"]_vars

\* The session creation has thrown after the lock, the slot is released and
\* the error is about to reach the caller.
C14_Witness ==
    \E i \in ReqIds :
        /\ reqs[i].kind = "direct" /\ reqs[i].pc = "done" /\ reqs[i].didLock
        /\ reqs[i].took = reqs[i].slot
        /\ reqs[i].resp = 500 /\ reqs[i].err = "Stripe error"
        /\ slots[reqs[i].slot].status = "available"

\* C15: a createDirectBooking that validation rejects (a field missing; the
\* time-slot document, the slot, the sub-venue or the venue not found; the slot
\* read as not available; the slot's start in the past; no price for the
\* sport) is answered 400 or 404 as the cause has it, and the slot store and the
\* booking store are unchanged and no session has been created.
C15_ValidationNoEffect ==
    [][\A i \in ReqIds : (reqs[i].pc = "idle" /\ reqs'[i].kind = "direct") =>
        \A s \in SlotIds \cup {0, 3}, sp \in Sports \cup {"none"}, lookup \in Lookups :
          DirectStart(i, s, sp, lookup) =>
              /\ (s = 0 \/ sp = "none") => reqs'[i].resp = 400
              /\ (s # 0 /\ sp # "none" /\ (lookup = "noDoc" \/ s \notin SlotIds))
                    => reqs'[i].resp = 404
              /\ (s \in SlotIds /\ sp # "none" /\ lookup # "noDoc"
                    /\ (slots[s].status # "available" \/ StartTime(s) < now \/ prices[s][sp] = 0))
                    => reqs'[i].resp = 400
              /\ (s \in SlotIds /\ sp # "none" /\ lookup \in {"noSubVenue", "noVenue"}
                    /\ slots[s].status = "available" /\ StartTime(s) >= now /\ prices[s][sp] # 0)
                    => reqs'[i].resp = 404
              /\ reqs'[i].resp # 0
                    => /\ reqs'[i].pc = "done"
                       /\ UNCHANGED <<slots, bookings, sessions, game>>]_vars

\* A request for a slot whose start has passed has been rejected while the
\* slot is available and priced.
C15_Witness ==
    \E i \in ReqIds :
        /\ reqs[i].kind = "direct" /\ reqs[i].pc = "done" /\ reqs[i].resp = 400
        /\ reqs[i].err = "Cannot book a slot in the past"
        /\ \E s \in SlotIds : slots[s].status = "available" /\ StartTime(s) < now

\* The answer of a caller that does not get the slot.
Conflict(r) == r.pc = "done" /\ r.resp = 400 /\ r.err = "Slot is no longer available"

\* C16: a createDirectBooking or startGameBooking that does not obtain the
\* slot is answered 400 "Slot is no longer available", the same whether the
\* status read before the lock showed the slot taken or the conditional
\* update matched nothing, and whoever holds the slot.
C16_UniformConflict ==
    [][\A i \in ReqIds :
          /\ (reqs[i].pc = "idle" /\ reqs'[i].kind = "direct") =>
                \A s \in SlotIds, sp \in Sports :
                    (DirectStart(i, s, sp, "ok") /\ slots[s].status # "available")
                        => Conflict(reqs'[i])
          /\ (reqs[i].pc = "idle" /\ reqs'[i].kind = "game") =>
                ((/\ GameStart(i, GameHost, GameId)
                  /\ game.bookingStatus # "Booked" /\ game.status # "Completed"
                  /\ game.approved >= GameMinPlayers
                  /\ slots[GameSlot].status # "available")
                     => Conflict(reqs'[i]))
          /\ (LockStep(i) /\ reqs[i].kind \in {"direct", "game"} /\ ~reqs'[i].didLock)
                => Conflict(reqs'[i])]_vars

\* A direct booking has lost the conditional update after its status read
\* had shown the slot available.
C16_Witness ==
    \E i \in ReqIds :
        /\ reqs[i].kind = "direct" /\ reqs[i].slot # 0 /\ ~reqs[i].didLock
        /\ Conflict(reqs[i])

\* C17: startGameBooking goes on to the slot lock only for an existing game
\* (else 404), asked for by its host (else 403 "Only the host can start
\* booking"), that is neither Booked nor Completed (else 400) and has at least
\* playersNeeded.min approved players (else 400 "Need at least <min> players
\* to book"); a rejected request changes no slot, booking, game or session.
C17_GameGate ==
    [][\A i \in ReqIds :
          /\ (reqs[i].pc = "idle" /\ reqs'[i].kind = "game") =>
                \A u \in Users, g \in {GameId, 0} : GameStart(i, u, g) =>
                    /\ g # GameId => reqs'[i].resp = 404
                    /\ (g = GameId /\ u # GameHost)
                          => /\ reqs'[i].resp = 403
                             /\ reqs'[i].err = "Only the host can start booking"
                    /\ (g = GameId /\ u = GameHost
                          /\ (game.bookingStatus = "Booked" \/ game.status = "Completed"))
                          => reqs'[i].resp = 400
                    /\ (g = GameId /\ u = GameHost /\ game.bookingStatus # "Booked"
                          /\ game.status # "Completed" /\ game.approved < GameMinPlayers)
                          => /\ reqs'[i].resp = 400
                             /\ reqs'[i].err = "Need at least 2 players to book"
                    /\ reqs'[i].resp # 0
                          => /\ reqs'[i].pc = "done"
                             /\ UNCHANGED <<slots, bookings, game, sessions>>
          /\ (LockStep(i) /\ reqs[i].kind = "game")
                => /\ reqs[i].user = GameHost
                   /\ game.bookingStatus # "Booked" /\ game.status # "Completed"
                   /\ game.approved >= GameMinPlayers]_vars

\* A user who is not the host has been refused while the slot is available.
C17_Witness ==
    \E i \in ReqIds :
        /\ reqs[i].kind = "game" /\ reqs[i].pc = "done" /\ reqs[i].resp = 403
        /\ slots[GameSlot].status = "available" /\ game.approved >= GameMinPlayers

\* C18: when startGameBooking fails after its lock succeeded (the session
\* creation or Booking.create throws), the slot it asked for is set back to
\* available with bookedForSport cleared, no booking is left, and the error
\* raised is what the caller gets.
C18_GameCompensation ==
    \A i \in ReqIds :
        (reqs[i].kind = "game" /\ reqs[i].pc = "done" /\ reqs[i].didLock /\ reqs[i].resp # 201)
            => /\ slots[reqs[i].slot] = [status |-> "available", bookedForSport |-> "none"]
               /\ ~Persisted(reqs[i].bk)
               /\ reqs[i].resp = 500
               /\ reqs[i].err = IF ~bypassStripe /\ ~stripeKeySet THEN "STRIPE_SECRET_KEY is not set"
                                ELSE IF reqs[i].sess = 0 THEN "Stripe error"
                                ELSE "Database error"

\* The session creation of a game booking has thrown after the lock.
C18_Witness ==
    \E i \in ReqIds :
        /\ reqs[i].kind = "game" /\ reqs[i].pc = "done" /\ reqs[i].didLock
        /\ reqs[i].took = reqs[i].slot /\ reqs[i].err = "Stripe error"

\* C19: retryPayment asked by a user who does not own the booking is answered
\* 404, for a booking already Paid 400, and for a booking whose start time has
\* passed 400; in each case the request ends before any lock attempt and no
\* slot, booking, game or payment session is changed or created.
C19_RetryRejections ==
    [][\A i \in ReqIds : (reqs[i].pc = "idle" /\ reqs'[i].kind = "retry") =>
          \A u \in Users, b \in BookingIds : RetryStart(i, u, b) =>
              LET owned == Persisted(b) /\ bookings[b].user = u
                  paid == owned /\ bookings[b].status = "Paid"
                  past == owned /\ ~paid /\ StartTime(bookings[b].slot) < now IN
              /\ ~owned => (reqs'[i].resp = 404 /\ reqs'[i].err = "Booking not found")
              /\ paid => (reqs'[i].resp = 400 /\ reqs'[i].err = "Booking is already paid")
              /\ past => /\ reqs'[i].resp = 400
                         /\ reqs'[i].err = "Cannot retry payment for a past booking"
              /\ (~owned \/ paid \/ past)
                    => /\ reqs'[i].pc = "done" /\ ~reqs'[i].didLock /\ reqs'[i].sess = 0
                       /\ UNCHANGED <<slots, bookings, game, sessions>>]_vars

\* A retry of a Paid booking has been refused.
C19_Witness ==
    \E i \in ReqIds, b \in BookingIds :
        /\ reqs[i].kind = "retry" /\ reqs[i].pc = "done" /\ reqs[i].resp = 400
        /\ reqs[i].err = "Booking is already paid"
        /\ bookings[b].status = "Paid"

\* C20: the lock step of retryPayment on a booking read as Failed goes on to
\* the payment session only when this call itself turned the booking's slot
\* from available to booked; when the slot is not available the call ends
\* with 400 "Slot is no longer available" and no booking or session changes,
\* so the booking keeps status Failed and its previous session id.
C20_FailedRetryRelock ==
    [][\A i \in ReqIds :
          (LockStep(i) /\ reqs[i].kind = "retry" /\ reqs[i].snap = "Failed")
              => IF slots[reqs[i].slot].status = "available"
                 THEN reqs'[i].pc = "pay" => reqs'[i].took = reqs[i].slot
                 ELSE /\ reqs'[i].pc = "done" /\ reqs'[i].resp = 400
                      /\ reqs'[i].err = "Slot is no longer available"
                      /\ UNCHANGED <<bookings, sessions>>]_vars

\* C20 where no other entry of the document is available at the lock step.
C20_SingleEntry ==
    [][\A i \in ReqIds :
          (LockStep(i) /\ reqs[i].kind = "retry" /\ reqs[i].snap = "Failed"
             /\ \A s \in SlotIds \ {reqs[i].slot} : slots[s].status # "available")
              => IF slots[reqs[i].slot].status = "available"
                 THEN reqs'[i].pc = "pay" /\ reqs'[i].took = reqs[i].slot
                 ELSE /\ reqs'[i].pc = "done" /\ reqs'[i].resp = 400
                      /\ reqs'[i].err = "Slot is no longer available"
                      /\ UNCHANGED <<bookings, sessions>>]_vars

\* C21: retryPayment on a booking read as Pending: at its lock step, a slot
\* that is available is locked by this call, which goes on to the payment
\* session; a slot that is booked is left as it is and the call goes on
\* without a lock of its own; the call is refused only when the slot is
\* neither available nor booked, whatever other requests do in between.
C21_PendingRetryLock ==
    [][\A i \in ReqIds :
          (reqs[i].kind = "retry" /\ reqs[i].snap = "Pending") =>
              /\ LockStep(i) =>
                    IF slots[reqs[i].slot].status = "available"
                    THEN /\ reqs'[i].pc = "pay" /\ reqs'[i].didLock
                         /\ reqs'[i].took = reqs[i].slot
                    ELSE /\ reqs'[i].pc = "reread" /\ ~reqs'[i].didLock
                         /\ slots' = slots
              /\ (reqs[i].pc = "reread" /\ reqs'[i].pc # "reread")
                    => (slots[reqs[i].slot].status \in {"available", "booked"}
                          => reqs'[i].pc = "pay" /\ ~reqs'[i].didLock /\ slots' = slots)]_vars

\* C21 at the lock step where no other entry of the document is available.
C21_SingleEntry ==
    [][\A i \in ReqIds :
          (LockStep(i) /\ reqs[i].kind = "retry" /\ reqs[i].snap = "Pending"
             /\ \A s \in SlotIds \ {reqs[i].slot} : slots[s].status # "available")
              => IF slots[reqs[i].slot].status = "available"
                 THEN /\ reqs'[i].pc = "pay" /\ reqs'[i].didLock
                      /\ reqs'[i].took = reqs[i].slot
                 ELSE /\ reqs'[i].pc = "reread" /\ ~reqs'[i].didLock
                      /\ slots' = slots]_vars

\* C22: a retryPayment answered 200 creates no booking record: the booking
\* it answers with is the one asked for, that booking carries the id of the
\* session just created and has status Pending, and when the booking belongs
\* to a game the game is Full again.
C22_RetryReusesBooking ==
    [][\A i \in ReqIds :
          (reqs[i].kind = "retry" /\ reqs[i].pc = "pay" /\ reqs'[i].pc = "done"
             /\ reqs'[i].resp = 200)
              => LET b == reqs[i].bk IN
                 /\ reqs'[i].bk = b
                 /\ \A c \in BookingIds : Persisted(c)' <=> Persisted(c)
                 /\ reqs'[i].sess # 0
                 /\ sessions[reqs'[i].sess].type = "none"
                 /\ sessions'[reqs'[i].sess].type = "retry"
                 /\ bookings'[b].session = reqs'[i].sess
                 /\ bookings'[b].status = "Pending"
                 /\ bookings'[b].amount = bookings[b].amount
                 /\ bookings'[b].game # 0 => game'.status = "Full"]_vars

\* C22 for a retry that no other request overlaps.
C22_Sequential ==
    [][\A i \in ReqIds :
          (reqs[i].kind = "retry" /\ reqs[i].pc = "pay" /\ reqs'[i].pc = "done"
             /\ reqs'[i].resp = 200 /\ workers = 1)
              => LET b == reqs[i].bk IN
                 /\ reqs'[i].bk = b
                 /\ \A c \in BookingIds : Persisted(c)' <=> Persisted(c)
                 /\ bookings'[b].session = reqs'[i].sess /\ reqs'[i].sess # 0
                 /\ bookings'[b].status = "Pending"
                 /\ bookings'[b].game # 0 => game'.status = "Full"]_vars

\* C23: two retryPayment calls for one booking never write it concurrently:
\* when one of them creates its payment session and writes the booking, no
\* other retryPayment for the same booking is in its try block, from where it
\* creates a session and writes the booking in turn.
C23_OneRetryWrites ==
    [][\A i, j \in ReqIds :
          (i # j /\ reqs[i].kind = "retry" /\ reqs[i].pc = "pay"
             /\ reqs'[i].pc = "done" /\ reqs'[i].resp = 200
             /\ reqs[j].kind = "retry" /\ reqs[j].bk = reqs[i].bk)
              => reqs[j].pc # "pay"]_vars

\* C24: with the bypass flag set, the try block of createDirectBooking
\* creates no payment session; answered 201, it has persisted one booking,
\* Paid, whose session and payment identifiers are the synthetic ones made
\* from the booking id, and the slot asked for is booked for the sport; when
\* it fails, the slot asked for is available again and no booking is left.
C24_DemoMode ==
    [][\A i \in ReqIds :
          (bypassStripe /\ reqs[i].kind = "direct" /\ reqs[i].pc = "book" /\ reqs'[i].pc = "done")
              => LET r == reqs'[i] IN
                 /\ sessions' = sessions
                 /\ r.resp = 201
                      => /\ {b \in BookingIds : bookings'[b] # bookings[b]} = {r.bk}
                         /\ bookings'[r.bk].status = "Paid"
                         /\ bookings'[r.bk].session = 0 - r.bk
                         /\ bookings'[r.bk].intent = 0 - r.bk
                         /\ slots'[r.slot] = [status |-> "booked", bookedForSport |-> r.sport]
                 /\ r.resp # 201
                      => /\ bookings' = bookings
                         /\ slots'[r.slot] = [status |-> "available", bookedForSport |-> "none"]]_vars

\* C24 for the requests whose lock update took the entry asked for.
C24_OwnEntryLocked ==
    [][\A i \in ReqIds :
          (bypassStripe /\ reqs[i].kind = "direct" /\ reqs[i].pc = "book" /\ reqs'[i].pc = "done"
             /\ reqs[i].took = reqs[i].slot)
              => LET r == reqs'[i] IN
                 /\ sessions' = sessions
                 /\ r.resp = 201
                      => /\ {b \in BookingIds : bookings'[b] # bookings[b]} = {r.bk}
                         /\ bookings'[r.bk].status = "Paid"
                         /\ bookings'[r.bk].session = 0 - r.bk
                         /\ bookings'[r.bk].intent = 0 - r.bk
                         /\ slots'[r.slot] = [status |-> "booked", bookedForSport |-> r.sport]
                 /\ r.resp # 201
                      => /\ bookings' = bookings
                         /\ slots'[r.slot] = [status |-> "available", bookedForSport |-> "none"]]_vars

C25_LeaveReopens ==
    [][/\ \A u \in Players :
            (InSeq(u, hosted.approvedPlayers) /\ ~InSeq(u, hosted'.approvedPlayers))
                => /\ ~InSeq(u, hosted'.joinRequests)
                   /\ (hosted.status = "Full" /\ Len(hosted'.approvedPlayers) < hosted.max)
                          => hosted'.status = "Open"
                   /\ hosted.status # "Full" => hosted'.status = hosted.status
       /\ hosted'.status = "Full" => Len(hosted'.approvedPlayers) = hosted'.max]_vars

\* A player has left a game that was Full, and the game is Open.
C25_Witness ==
    /\ call.op = "leave" /\ call.pc = "done" /\ call.resp = 200
    /\ hosted.status = "Open" /\ Len(hosted.approvedPlayers) = hosted.max - 1
    /\ ~InSeq(call.user, hosted.approvedPlayers) /\ ~InSeq(call.user, hosted.joinRequests)

\* C26: leaveGame is all or nothing: a missing game is answered 404, a booked
\* slot 400, a user who is not approved 400; whenever the call ends with an
\* error (these, or a failing save) its transaction is aborted and its session
\* ended in the step that answers, and no step of the call other than the
\* commit changes the stored game; the commit happens only at the end of a
\* call that succeeds.
C26_LeaveAllOrNothing ==
    [][/\ (call.pc = "idle" /\ call'.op = "leave") =>
             \A u \in Players, found \in BOOLEAN : leaveGameStart(u, found) =>
                 /\ (~found \/ hosted.status = "none") => call'.resp = 404
                 /\ (found /\ hosted.status # "none" /\ hosted.bookingStatus = "Booked")
                       => call'.resp = 400
                 /\ (found /\ hosted.status # "none" /\ hosted.bookingStatus # "Booked"
                       /\ ~InSeq(u, hosted.approvedPlayers))
                       => call'.resp = 400
       /\ (call'.op = "leave" /\ call.pc # "done" /\ call'.pc = "done" /\ call'.resp # 200)
             => /\ call'.txn = "aborted" /\ call'.ended
                /\ hosted' = hosted
       /\ (call' # call /\ call'.op = "leave" /\ call'.txn # "committed") => hosted' = hosted
       /\ (call'.op = "leave" /\ call'.txn = "committed" /\ call.txn # "committed")
             => /\ call.pc = "commit" /\ call'.pc = "done" /\ call'.resp = 200]_vars

\* The save of a leaveGame has failed: the player is still approved.
C26_Witness ==
    /\ call.op = "leave" /\ call.pc = "done" /\ call.resp = 500
    /\ call.txn = "aborted" /\ call.ended
    /\ InSeq(call.user, hosted.approvedPlayers)
    /\ ~InSeq(call.user, call.copy.approvedPlayers)

\* C27: the host of a hosted game is in its approvedPlayers, whatever joins
\* and leaves have followed the hosting.
C27_HostApproved ==
    hosted.status # "none" => InSeq(hosted.host, hosted.approvedPlayers)

\* C27 for every step but the commit of a leaveGame called by the host.
C27_UnlessHostLeaves ==
    [][(/\ hosted.status # "none" /\ InSeq(hosted.host, hosted.approvedPlayers)
        /\ ~(call.op = "leave" /\ call.pc = "commit" /\ call.user = hosted.host))
          => InSeq(hosted'.host, hosted'.approvedPlayers)]_vars

\* C28: cancelGame sets the game to Cancelled exactly when the game exists,
\* the caller is its host, the slot is not booked and the slot starts at least
\* 2 hours later (2 hours sharp included); a call by another user is answered
\* 403, for a booked game 400, with less notice 400; a call that is refused
\* leaves the game as it was, and nothing else cancels a game.
C28_CancelGate ==
    [][/\ (call.pc = "idle" /\ call'.op = "cancel") =>
             \A u \in Players, found \in BOOLEAN : cancelGame(u, found) =>
                 LET there == found /\ hosted.status # "none"
                     byHost == there /\ u = hosted.host
                     free == byHost /\ hosted.bookingStatus # "Booked"
                     ok == free /\ hosted.startsIn >= CancelNoticeHours IN
                 /\ ok => (hosted'.status = "Cancelled" /\ call'.resp = 200)
                 /\ (there /\ ~byHost)
                       => (call'.resp = 403 /\ call'.err = "Only the host can cancel this game")
                 /\ (byHost /\ ~free) => call'.resp = 400
                 /\ (free /\ ~ok) => call'.resp = 400
                 /\ ~ok => (call'.resp # 200 /\ hosted' = hosted)
       /\ (hosted'.status = "Cancelled" /\ hosted.status # "Cancelled")
             => (call'.op = "cancel" /\ call'.resp = 200 /\ call'.user = hosted.host)]_vars

\* A game has been cancelled by its host 2 hours before the start.
C28_Witness ==
    /\ call.op = "cancel" /\ call.pc = "done" /\ call.resp = 200
    /\ hosted.status = "Cancelled" /\ hosted.startsIn = CancelNoticeHours
    /\ call.user = hosted.host

\* C29: a request with a Bearer token that verifies, whose user record does
\* not exist, ends with status 500 and the message "Database lookup failed",
\* without a call of next().
C29_UserNotFound ==
    (auth.pc = "done" /\ auth.header = "bearer" /\ auth.verify = "ok" /\ auth.lookup = "null")
        => /\ auth.status = 500 /\ auth.msg = "Database lookup failed"
           /\ ~auth.next /\ auth.user = "none"

\* The lookup has returned null and the request is over.
C29_Witness ==
    /\ auth.pc = "done" /\ auth.header = "bearer" /\ auth.verify = "ok" /\ auth.lookup = "null"
    /\ auth.cause = "Authentication failed: user not found or has been removed"

\* ------------------------------------------- slot entries and payment sessions
\* C31: the lock update changes a slot entry only if the entry with the
\* requested id is available, and changes no other entry: a lock request for
\* a booked entry fails even when another entry of the document is
\* available, and no entry other than the requested one is set to booked.
C31_LockOnlyRequestedEntry ==
    [][\A i \in ReqIds : LockStep(i) =>
          /\ \A s \in SlotIds \ {reqs[i].slot} : slots'[s] = slots[s]
          /\ slots[reqs[i].slot].status # "available"
                => slots' = slots /\ ~reqs'[i].didLock]_vars

\* C31 where no other entry of the document is available at the lock step.
C31_SingleEntry ==
    [][\A i \in ReqIds :
          (LockStep(i) /\ \A s \in SlotIds \ {reqs[i].slot} : slots[s].status # "available")
              => /\ \A s \in SlotIds \ {reqs[i].slot} : slots'[s] = slots[s]
                 /\ slots[reqs[i].slot].status # "available"
                       => slots' = slots /\ ~reqs'[i].didLock]_vars

\* The step in which retryPayment request i for booking b is answered 200.
RetrySucceeds(i, b) ==
    /\ reqs[i].kind = "retry" /\ reqs[i].pc = "pay" /\ reqs[i].bk = b
    /\ reqs'[i].pc = "done" /\ reqs'[i].resp = 200

\* C32: Failed is final for a payment attempt: a booking that is Failed
\* under session S keeps its status in every step of a webhook for S, and a
\* Failed booking leaves Failed only in the step of a retryPayment answered
\* 200, which gives it a new session id and status Pending.
C32_FailedIsTerminal ==
    [][\A b \in BookingIds :
          (bookings[b].status = "Failed" /\ bookings'[b].status # "Failed")
              => /\ bookings'[b].status = "Pending"
                 /\ bookings'[b].session # bookings[b].session
                 /\ \E i \in ReqIds : RetrySucceeds(i, b)]_vars

\* The first half of C32: no step of a webhook for the session of a Failed
\* booking changes the booking's status.
C32_OwnSession ==
    [][\A b \in BookingIds, i \in ReqIds :
          (bookings[b].status = "Failed" /\ reqs[i].kind = "webhook" /\ Active(reqs[i])
             /\ reqs[i].sess = bookings[b].session /\ reqs'[i] # reqs[i])
              => bookings'[b].status = "Failed"]_vars

\* The second half of C32 without the answer of the retry: a step that is
\* not a webhook's takes a booking out of Failed only as the save of a
\* retryPayment, to Pending and with a new session id.
C32_OnlyRetryOtherwise ==
    [][\A b \in BookingIds :
          (bookings[b].status = "Failed" /\ bookings'[b].status # "Failed"
             /\ \A i \in ReqIds : reqs[i].kind = "webhook" => reqs'[i] = reqs[i])
              => /\ bookings'[b].status = "Pending"
                 /\ bookings'[b].session # bookings[b].session
                 /\ \E i \in ReqIds : reqs[i].kind = "retry" /\ reqs[i].pc = "pay" /\ reqs[i].bk = b]_vars

\* C33: every payment session the system has created, by createDirectBooking
\* or by retryPayment, was created with expires_at 30 minutes after its
\* creation.
C33_FixedExpiry ==
    \A x \in SessionIds :
        sessions[x].type \in {"direct", "retry"} => sessions[x].expires = SessionExpirySeconds

\* C33 for the sessions of createDirectBooking alone.
C33_DirectSessions ==
    \A x \in SessionIds :
        sessions[x].type = "direct" => sessions[x].expires = SessionExpirySeconds

\* C34: a session-expired event whose session carries no slot in its
\* metadata (a session of retryPayment) and whose session id is that of a
\* booking goes, once the booking is saved, to the release by the booking's
\* times: the entry whose start and end equal the booking's becomes
\* available with bookedForSport cleared, no other entry changes, and the
\* event is answered 200.
C34_FallbackRelease ==
    [][\A i \in ReqIds :
          (reqs[i].kind = "webhook" /\ Active(reqs[i]) /\ reqs[i].ev = "expired"
             /\ reqs[i].bk # 0 /\ sessions[reqs[i].sess].slot = 0)
              => /\ (reqs[i].pc = "save" /\ reqs'[i].pc # "save" /\ reqs'[i].resp # 500)
                       => reqs'[i].pc = "fallback" /\ slots' = slots
                 /\ (reqs[i].pc = "fallback" /\ reqs'[i].pc # "fallback")
                       => /\ slots' = [slots EXCEPT ![bookings[reqs[i].bk].slot] =
                                         [status |-> "available", bookedForSport |-> "none"]]
                          /\ reqs'[i].pc = "done" /\ reqs'[i].resp = 200]_vars

\* The expired event of a retry session has released the booked entry of its
\* booking.
C34_Witness ==
    \E i \in ReqIds :
        /\ reqs[i].kind = "webhook" /\ reqs[i].pc = "done" /\ reqs[i].ev = "expired"
        /\ reqs[i].bk # 0 /\ sessions[reqs[i].sess].type = "retry"
        /\ reqs[i].slot = bookings[reqs[i].bk].slot
        /\ slots[reqs[i].slot].status = "available"
        /\ \E s \in SlotIds \ {reqs[i].slot} : slots[s].status = "booked"

\* C35: whenever no request and no webhook is in flight, the slot entry of
\* every booking that is Pending or Paid has status booked.
C35_HeldSlotIsBooked ==
    AllIdle =>
        \A b \in BookingIds :
            bookings[b].status \in {"Pending", "Paid"} => slots[bookings[b].slot].status = "booked"

\* The second half of C35: the release step of an expired event for a
\* session that is no longer the session of its booking leaves the entry of
\* that booking as it is while the booking is Pending or Paid.
C35_SupersededExpiry ==
    [][\A i \in ReqIds :
          (reqs[i].kind = "webhook" /\ reqs[i].pc = "release" /\ reqs'[i].pc # "release")
              => LET b == sessions[reqs[i].sess].bookingId IN
                 (/\ Persisted(b) /\ bookings[b].session # reqs[i].sess
                  /\ bookings[b].status \in {"Pending", "Paid"})
                     => slots'[bookings[b].slot] = slots[bookings[b].slot]]_vars

\* C36: when the session-completed event of a session that was issued for
\* booking B, by the booking call or by a retry, has been processed and
\* answered 200, B has status Paid.
C36_PaymentRecorded ==
    [][\A i \in ReqIds :
          (reqs'[i].kind = "webhook" /\ reqs'[i].ev = "completed" /\ reqs'[i].sess # 0
             /\ reqs[i].pc # "done" /\ reqs'[i].pc = "done" /\ reqs'[i].resp = 200)
              => LET b == sessions[reqs'[i].sess].bookingId IN
                 Persisted(b) => bookings'[b].status = "Paid"]_vars

\* C36 for the events of the session that the booking currently carries.
C36_CurrentSession ==
    [][\A i \in ReqIds :
          (reqs'[i].kind = "webhook" /\ reqs'[i].ev = "completed" /\ reqs'[i].sess # 0
             /\ reqs[i].pc # "done" /\ reqs'[i].pc = "done" /\ reqs'[i].resp = 200)
              => LET b == sessions[reqs'[i].sess].bookingId IN
                 (Persisted(b) /\ bookings'[b].session = reqs'[i].sess)
                     => bookings'[b].status = "Paid"]_vars

\* The step in which retryPayment request i ends with an error answer.
RetryFails(i) ==
    /\ reqs'[i].kind = "retry" /\ reqs[i].pc # "done"
    /\ reqs'[i].pc = "done" /\ reqs'[i].resp # 200

\* C37: a retryPayment that ends with an error leaves the status and the
\* session id of every booking as they were, also when the error is raised
\* after the new payment session was created.
C37_FailedRetryKeepsBooking ==
    [][\A i \in ReqIds : RetryFails(i) =>
          \A b \in BookingIds :
              /\ bookings'[b].status = bookings[b].status
              /\ bookings'[b].session = bookings[b].session]_vars

\* C38: in every state and for every slot entry, status is available
\* exactly when bookedForSport is empty and booked exactly when
\* bookedForSport names a sport: the lock, the compensation and the release
\* of the webhook write the two fields together.
C38_StatusAndSportAgree ==
    \A s \in SlotIds :
        /\ slots[s].status \in {"available", "booked"}
        /\ slots[s].status = "available" <=> slots[s].bookedForSport = "none"
        /\ slots[s].status = "booked" <=> slots[s].bookedForSport \in Sports

\* A retryPayment that had locked its slot has failed and unlocked it, while
\* another entry is booked for a sport.
C38_Witness ==
    \E i \in ReqIds :
        /\ reqs[i].kind = "retry" /\ reqs[i].pc = "done" /\ reqs[i].resp = 500
        /\ reqs[i].didLock
        /\ slots[reqs[i].slot] = [status |-> "available", bookedForSport |-> "none"]
        /\ \E s \in SlotIds : slots[s].status = "booked" /\ slots[s].bookedForSport \in Sports

\* What one processing of event ev of session x leaves behind in bookings
\* bs, game g and slots sl: the booking found by the session id is Paid with
\* the payment intent (completed) or Failed (expired), the game named by the
\* metadata is Booked or Open, and the entry named by the metadata, or else
\* the entry with the booking's times, is available.
Processed(bs, g, sl, x, ev) ==
    LET b == BookingOfSession(bs, x)
        m == sessions[x] IN
    IF ev = "completed"
    THEN b # 0 => /\ bs[b].status = "Paid" /\ bs[b].intent = x
                  /\ (m.type = "game" /\ m.gameId # 0) => g.bookingStatus = "Booked"
    ELSE /\ b # 0 => /\ bs[b].status = "Failed"
                     /\ m.gameId # 0 => g.status = "Open"
         /\ m.slot # 0 => sl[m.slot] = [status |-> "available", bookedForSport |-> "none"]
         /\ (m.slot = 0 /\ b # 0)
               => sl[bs[b].slot] = [status |-> "available", bookedForSport |-> "none"]

\* A step of webhook request i for event ev of session x: its start or one
\* of its later steps.
WebhookStep(i, x, ev) ==
    /\ reqs'[i] # reqs[i]
    /\ reqs'[i].kind = "webhook" /\ reqs'[i].sess = x /\ reqs'[i].ev = ev
    /\ reqs[i].pc # "done"

\* C39: processing a verified session-completed or session-expired event is
\* idempotent under redelivery.  Where deliveries are not overlapped by
\* other requests (one worker), a delivery answered 200 leaves the stores in
\* the state Processed, and in that state every step of a second delivery
\* of the same event changes no booking, no game and no slot and the
\* delivery is answered 200 (500 only when its own booking.save() throws).
C39_RedeliveryIdempotent ==
    [][\A i \in ReqIds, x \in SessionIds, ev \in {"completed", "expired"} :
          (workers = 1 /\ WebhookStep(i, x, ev)) =>
              /\ (reqs'[i].pc = "done" /\ reqs'[i].resp = 200)
                    => Processed(bookings', game', slots', x, ev)
              /\ (sessions[x].acked /\ sessions[x].fate = ev
                    /\ Processed(bookings, game, slots, x, ev))
                    => /\ UNCHANGED <<bookings, game, slots>>
                       /\ (reqs'[i].pc = "done" /\ reqs[i].pc # "save") => reqs'[i].resp = 200
                       /\ (reqs'[i].pc = "done" /\ reqs[i].pc = "save")
                             => reqs'[i].resp \in {200, 500}]_vars

\* The expired event of a session with a booking is being processed for the
\* second time, after the first delivery was answered 200.
C39_Witness ==
    \E i \in ReqIds :
        /\ workers = 1
        /\ reqs[i].kind = "webhook" /\ reqs[i].pc \in {"release", "fallback"}
        /\ reqs[i].bk # 0
        /\ sessions[reqs[i].sess].acked /\ sessions[reqs[i].sess].fate = "expired"
        /\ Processed(bookings, game, slots, reqs[i].sess, "expired")
====
